---- MODULE Spec2Model ----
(***************************************************************************)
(* Model of pytorch_optimizer/optimizer/alig.py: the AliG optimizer        *)
(* (Adaptive Learning Rates for Interpolation with Gradients).             *)
(*                                                                         *)
(* Tensors are modelled as one-element tensors holding an exact rational   *)
(* number <<n, d>> (d > 0, lowest terms); the arithmetic of the update     *)
(* rule is carried out operation by operation as the code does it.         *)
(* One optimizer object is modelled, over two parameter groups.            *)
(***************************************************************************)
EXTENDS Integers, Sequences, FiniteSets, TLC

VARIABLES
    phase,         \* "new" (not constructed), "ready", "failed" (__init__ raised)
    self,          \* the attributes set by __init__, lines 31-35
    param_groups,  \* self.param_groups: a sequence of group dicts
    P,             \* the value of each parameter tensor
    grad,          \* p.grad of each parameter
    state,         \* self.state[p]: <<>> (empty dict) or <<momentum_buffer>>
    log,           \* the calls and writes of the last operation, in order
    result,        \* how the last operation ended
    un_clipped,    \* the local un_clipped_step_size of the last step: <<>> or <<r>>
    pre,           \* the parameters, buffers, groups and gradients before the last operation
    lastOp,        \* the last operation and its argument
    okSteps,       \* steps that returned normally since construction or reset
    calls          \* operations called on the constructed optimizer

vars == <<phase, self, param_groups, P, grad, state, log, result, un_clipped,
          pre, lastOp, okSteps, calls>>

\* The number of step/reset calls explored after construction.
MaxCalls == 2

----------------------------------------------------------------------------
(* Exact rational arithmetic standing for tensor arithmetic.               *)

Abs(x) == IF x < 0 THEN -x ELSE x

RECURSIVE GCD(_, _)
GCD(a, b) == IF b = 0 THEN a ELSE GCD(b, a % b)

Norm(n, d) ==
    LET g == GCD(Abs(n), Abs(d))
        s == IF d < 0 THEN -1 ELSE 1
    IN <<(s * n) \div g, (s * d) \div g>>

R(n, d) == Norm(n, d)
Zero == <<0, 1>>
RAdd(a, b) == Norm(a[1] * b[2] + b[1] * a[2], a[2] * b[2])
RNeg(a) == <<-a[1], a[2]>>
RSub(a, b) == RAdd(a, RNeg(b))
RMul(a, b) == Norm(a[1] * b[1], a[2] * b[2])
RDiv(a, b) == Norm(a[1] * b[2], a[2] * b[1])
RLe(a, b) == a[1] * b[2] <= b[1] * a[2]
RLt(a, b) == a[1] * b[2] < b[1] * a[2]

----------------------------------------------------------------------------
(* Inputs.                                                                 *)

\* params: two parameter groups, the first with two parameters.
GroupParams == <<<<1, 2>>, <<3>>>>
Params == {1, 2, 3}

NoGrad == [kind |-> "none", v |-> Zero]
Dense(r) == [kind |-> "dense", v |-> r]
Sparse(r) == [kind |-> "sparse", v |-> r]
\* The gradients a closure leaves on parameters 1, 2, 3: dense everywhere,
\* missing on some, and sparse on the first, a middle or the last parameter.
GradAssignments ==
    { <<Dense(R(1, 1)), Dense(R(-2, 1)), Dense(R(1, 1))>>,
      <<Dense(R(-2, 1)), Dense(R(1, 1)), NoGrad>>,
      <<NoGrad, Dense(R(1, 1)), Dense(R(-2, 1))>>,
      <<Dense(R(1, 1)), NoGrad, NoGrad>>,
      <<NoGrad, NoGrad, NoGrad>>,
      <<Sparse(R(1, 1)), Dense(R(1, 1)), Dense(R(1, 1))>>,
      <<Dense(R(1, 1)), Sparse(R(1, 1)), Dense(R(-2, 1))>>,
      <<Dense(R(-2, 1)), Dense(R(1, 1)), Sparse(R(1, 1))>>,
      <<NoGrad, NoGrad, Sparse(R(-2, 1))>> }

\* None is <<>>, a value x is <<x>>.
None == <<>>
Some(x) == <<x>>
IsNone(o) == Len(o) = 0
Val(o) == o[1]

Losses == {R(1, 1), R(6, 1)}
\* A closure evaluates the model: it leaves gradients on the parameters and
\* returns the loss.
Closures == [loss : Losses, grads : GradAssignments]
MaxLrChoices == {None, Some(R(1, 1))}
MomentumChoices == {R(-1, 2), R(0, 1), R(1, 2)}
EpsChoices == {R(-1, 1), R(1, 1)}

Ev(name, arg) == [ev |-> name, arg |-> arg]
P0 == [p \in Params |-> R(p, 1)]

----------------------------------------------------------------------------
(* Construction.                                                           *)

\* BaseOptimizer.validate_momentum / validate_epsilon: a negative value is
\* out of range.  "" is no error, otherwise the name of the raised exception.
validate_momentum(momentum) == IF RLt(momentum, Zero) THEN "ValueError" ELSE ""
validate_epsilon(eps) == IF RLt(eps, Zero) THEN "ValueError" ELSE ""

\* AliG.validate_parameters: momentum first, then eps.
validate_parameters(s) ==
    IF validate_momentum(s.momentum) # "" THEN validate_momentum(s.momentum)
    ELSE validate_epsilon(s.eps)

\* A group dict of params: the parameters and, when has_max_lr or
\* has_momentum, the group's own 'max_lr' or 'momentum' entry.
ParamsChoices ==
    { <<[params |-> GroupParams[1], has_max_lr |-> FALSE, max_lr |-> None,
         has_momentum |-> FALSE, momentum |-> Zero],
        [params |-> GroupParams[2], has_max_lr |-> hl, max_lr |-> Some(R(2, 1)),
         has_momentum |-> hm, momentum |-> R(1, 2)]>>
      : hl \in BOOLEAN, hm \in BOOLEAN }

\* Optimizer.__init__(params, defaults): every group gets the defaults for
\* the keys it does not set itself.  'step' and 'step_size' are not set.
super_init(params, defaults) ==
    [i \in 1..Len(params) |->
        [params    |-> params[i].params,
         max_lr    |-> IF params[i].has_max_lr THEN params[i].max_lr ELSE defaults.max_lr,
         momentum  |-> IF params[i].has_momentum THEN params[i].momentum
                       ELSE defaults.momentum,
         eps       |-> defaults.eps,
         step      |-> None,
         step_size |-> None]]

\* Mutant of AliG_init: the groups are registered and the projection is
\* called before the hyperparameters are validated.
AliG_init_validate_last(params, max_lr, projection_fn, momentum, adjusted_momentum, eps) ==
    LET s == [max_lr |-> max_lr, projection_fn |-> projection_fn, momentum |-> momentum,
              adjusted_momentum |-> adjusted_momentum, eps |-> eps]
        err == validate_parameters(s)
        defaults == [max_lr |-> max_lr, momentum |-> momentum, eps |-> eps]
        early == <<Ev("super_init", 0)>>
                 \o (IF projection_fn THEN <<Ev("projection_fn", 0)>> ELSE <<>>)
                 \o <<Ev("validate_parameters", 0)>>
    IN IF err # ""
       THEN [phase |-> "failed", self |-> s, param_groups |-> super_init(params, defaults),
             log |-> early \o <<Ev("raise", 0)>>,
             result |-> [kind |-> "raise", exc |-> err, loss |-> None]]
       ELSE [phase |-> "ready", self |-> s,
             param_groups |-> super_init(params, defaults),
             log |-> early,
             result |-> [kind |-> "return", exc |-> "", loss |-> None]]

\* AliG.__init__: what the constructor leaves behind.
AliG_init(params, max_lr, projection_fn, momentum, adjusted_momentum, eps) ==
    LET s == [max_lr |-> max_lr, projection_fn |-> projection_fn, momentum |-> momentum,
              adjusted_momentum |-> adjusted_momentum, eps |-> eps]
        err == validate_parameters(s)
        defaults == [max_lr |-> max_lr, momentum |-> momentum, eps |-> eps]
    IN IF err # ""
       THEN [phase |-> "failed", self |-> s, param_groups |-> <<>>,
             log |-> <<Ev("validate_parameters", 0), Ev("raise", 0)>>,
             result |-> [kind |-> "raise", exc |-> err, loss |-> None]]
       ELSE [phase |-> "ready", self |-> s,
             param_groups |-> super_init(params, defaults),
             log |-> <<Ev("validate_parameters", 0), Ev("super_init", 0)>>
                     \o (IF projection_fn THEN <<Ev("projection_fn", 0)>> ELSE <<>>),
             result |-> [kind |-> "return", exc |-> "", loss |-> None]]

----------------------------------------------------------------------------
(* AliG.reset.                                                             *)

RECURSIVE AllParams(_, _)
AllParams(groups, i) ==
    IF i > Len(groups) THEN {}
    ELSE {groups[i].params[k] : k \in 1..Len(groups[i].params)} \cup AllParams(groups, i + 1)

\* Mutant of reset: the step counter is reset, the buffers are kept.
reset_keep_buffers(o) ==
    [param_groups |-> [i \in 1..Len(o.param_groups) |->
                          [o.param_groups[i] EXCEPT !.step = Some(0)]],
     state |-> o.state,
     P |-> o.P,
     grad |-> o.grad,
     log |-> <<Ev("reset", 0)>>,
     result |-> [kind |-> "return", exc |-> "", loss |-> None]]

reset(o) ==
    LET inGroups == AllParams(o.param_groups, 1)
    IN [param_groups |-> [i \in 1..Len(o.param_groups) |->
                             [o.param_groups[i] EXCEPT !.step = Some(0)]],
        state |-> [p \in Params |-> IF p \in inGroups THEN <<Zero>> ELSE o.state[p]],
        P |-> o.P,
        grad |-> o.grad,
        log |-> <<Ev("reset", 0)>>,
        result |-> [kind |-> "return", exc |-> "", loss |-> None]]

----------------------------------------------------------------------------
(* AliG.compute_step_size.                                                 *)

\* The loop of lines 67-70 from parameter k of group i on: the sum of
\* p.grad.norm().pow(2) over the parameters whose grad is not None.
RECURSIVE global_grad_norm(_, _, _, _)
global_grad_norm(groups, g, i, k) ==
    IF i > Len(groups) THEN Zero
    ELSE IF k > Len(groups[i].params) THEN global_grad_norm(groups, g, i + 1, 1)
    ELSE LET p == groups[i].params[k]
             rest == global_grad_norm(groups, g, i, k + 1)
         IN IF g[p].kind # "none" THEN RAdd(RMul(g[p].v, g[p].v), rest) ELSE rest

\* Mutant of compute_step_size: only the first group's gradients are summed.
compute_step_size_first_group(slf, groups, g, loss) ==
    IF IsNone(loss) THEN None
    ELSE Some(RDiv(Val(loss), RAdd(global_grad_norm(SubSeq(groups, 1, 1), g, 1, 1), slf.eps)))

\* loss / (global_grad_norm + self.eps); None when loss is None, where the
\* division raises TypeError.
compute_step_size(slf, groups, g, loss) ==
    IF IsNone(loss) THEN None
    ELSE Some(RDiv(Val(loss), RAdd(global_grad_norm(groups, g, 1, 1), slf.eps)))

----------------------------------------------------------------------------
(* AliG.step.                                                              *)

\* tensor.clamp(min=m): the larger of the tensor and m.
clamp_min(x, m) == IF RLt(x, m) THEN m ELSE x

\* Lines 84-88: the step size of a group.
group_step_size(un_clipped_step_size, max_lr) ==
    IF ~IsNone(max_lr) THEN clamp_min(un_clipped_step_size, Val(max_lr))
    ELSE un_clipped_step_size

\* Mutant of update_param: the two momentum variants are exchanged.
update_param_swapped(pv, g, st, step_size, momentum, adjusted_momentum) ==
    LET buffer == IF Len(st) = 0 THEN Zero ELSE st[1]
        p1 == RAdd(pv, RMul(RNeg(step_size), g))
    IN IF RLt(Zero, momentum)
       THEN IF ~adjusted_momentum
            THEN LET b1 == RSub(RMul(buffer, momentum), g)
                 IN [P |-> RAdd(p1, RMul(RMul(step_size, momentum), b1)), state |-> <<b1>>]
            ELSE LET b1 == RAdd(RMul(buffer, momentum), RMul(RNeg(step_size), g))
                 IN [P |-> RAdd(p1, RMul(momentum, b1)), state |-> <<b1>>]
       ELSE [P |-> p1, state |-> <<buffer>>]

\* Lines 99-113: the update of one parameter with a dense gradient.  st is
\* self.state[p]; the result is the new parameter value and the new state.
update_param(pv, g, st, step_size, momentum, adjusted_momentum) ==
    LET buffer == IF Len(st) = 0 THEN Zero ELSE st[1]
        p1 == RAdd(pv, RMul(RNeg(step_size), g))
    IN IF RLt(Zero, momentum)
       THEN IF adjusted_momentum
            THEN LET b1 == RSub(RMul(buffer, momentum), g)
                 IN [P |-> RAdd(p1, RMul(RMul(step_size, momentum), b1)), state |-> <<b1>>]
            ELSE LET b1 == RAdd(RMul(buffer, momentum), RMul(RNeg(step_size), g))
                 IN [P |-> RAdd(p1, RMul(momentum, b1)), state |-> <<b1>>]
       ELSE [P |-> p1, state |-> <<buffer>>]

\* Mutant of is_sparse: the sparse check never fires.
is_sparse_never(g) == FALSE

\* Line 96: grad.is_sparse.
is_sparse(g) == g.kind = "sparse"

\* Mutant of call_projection: the projection is called for the first group only.
call_projection_first_only(m, slf, gi) ==
    IF slf.projection_fn /\ gi = 1
    THEN [m EXCEPT !.log = Append(@, Ev("projection_fn", gi))]
    ELSE m

\* Lines 115-116: the projection after a group's parameters; the call is
\* recorded in the trace.
call_projection(m, slf, gi) ==
    IF slf.projection_fn
    THEN [m EXCEPT !.log = Append(@, Ev("projection_fn", gi))]
    ELSE m

\* Lines 91-113: the loop over the parameters of group gi, from the k-th on.
\* m is the machine state so far (bound to its value once, by the set
\* constructor, before the body reads it).
RECURSIVE param_loop(_, _, _, _)
param_loop(m0, slf, gi, k) ==
    LET body(m) ==
            IF k > Len(m.param_groups[gi].params) THEN m
            ELSE LET group == m.param_groups[gi]
                     p == group.params[k]
                 IN IF m.grad[p].kind = "none" THEN param_loop(m, slf, gi, k + 1)
                    ELSE IF is_sparse(m.grad[p])
                    THEN [m EXCEPT !.exc = "NoSparseGradientError",
                                   !.log = Append(@, Ev("raise", p))]
                    ELSE param_loop(
                             CHOOSE r \in
                                 { [m EXCEPT !.P[p] = u.P, !.state[p] = u.state,
                                             !.log = Append(@, Ev("update", p))] :
                                   u \in {update_param(m.P[p], m.grad[p].v, m.state[p],
                                                       Val(group.step_size), group.momentum,
                                                       slf.adjusted_momentum)} } : TRUE,
                             slf, gi, k + 1)
    IN CHOOSE r \in {body(m) : m \in {m0}} : TRUE

\* Lines 83-116: the loop over the groups, from group gi on.
RECURSIVE group_loop(_, _, _, _)
group_loop(m0, slf, un_clipped_step_size, gi) ==
    LET setStepSize(m) ==
            [m EXCEPT !.param_groups[gi].step_size =
                          Some(group_step_size(un_clipped_step_size, m.param_groups[gi].max_lr)),
                      !.log = Append(@, Ev("step_size", gi))]
        afterParams(m2) ==
            IF m2.exc # "" THEN m2
            ELSE group_loop(call_projection(m2, slf, gi), slf, un_clipped_step_size, gi + 1)
        body(m) ==
            IF gi > Len(m.param_groups) THEN m
            ELSE CHOOSE r \in {afterParams(m2) : m2 \in {param_loop(setStepSize(m), slf, gi, 1)}} : TRUE
    IN CHOOSE r \in {body(m) : m \in {m0}} : TRUE

\* Mutant of step_outcome: step returns None instead of the loss.
step_outcome_no_loss(m, loss) ==
    [param_groups |-> m.param_groups, P |-> m.P, grad |-> m.grad,
     state |-> m.state, log |-> m.log, un_clipped |-> m.un_clipped,
     result |-> IF m.exc # ""
                THEN [kind |-> "raise", exc |-> m.exc, loss |-> None]
                ELSE [kind |-> "return", exc |-> "", loss |-> None]]

\* What step hands back: the optimizer's new state, the trace and the result.
step_outcome(m, loss) ==
    [param_groups |-> m.param_groups, P |-> m.P, grad |-> m.grad,
     state |-> m.state, log |-> m.log, un_clipped |-> m.un_clipped,
     result |-> IF m.exc # ""
                THEN [kind |-> "raise", exc |-> m.exc, loss |-> None]
                ELSE [kind |-> "return", exc |-> "", loss |-> loss]]

\* AliG.step(closure): closure is None or Some(c), c in Closures.
step(o, closure) ==
    LET m0 == [param_groups |-> o.param_groups, P |-> o.P, grad |-> o.grad,
               state |-> o.state, log |-> <<>>, exc |-> "", un_clipped |-> None]
        \* lines 76-79
        m1 == IF IsNone(closure) THEN m0
              ELSE [m0 EXCEPT !.grad = Val(closure).grads,
                              !.log = Append(@, Ev("closure", 0))]
        loss == IF IsNone(closure) THEN None ELSE Some(Val(closure).loss)
        \* line 81 and the loop of lines 83-116
        rest(m, u) ==
            IF IsNone(u)
            THEN [m EXCEPT !.exc = "TypeError",
                           !.log = @ \o <<Ev("compute_step_size", 0), Ev("raise", 0)>>]
            ELSE group_loop([m EXCEPT !.un_clipped = u,
                                      !.log = Append(@, Ev("compute_step_size", 0))],
                            o.self, Val(u), 1)
    IN CHOOSE r \in
           { step_outcome(m3, loss) :
             m3 \in { rest(m, u) :
                      m \in {m1},
                      u \in {compute_step_size(o.self, m1.param_groups, m1.grad, loss)} } } : TRUE

----------------------------------------------------------------------------
(* The state machine.                                                      *)

Snapshot == [self |-> self, param_groups |-> param_groups, P |-> P, grad |-> grad,
             state |-> state]
Obj == [self |-> self, param_groups |-> param_groups, P |-> P, grad |-> grad,
        state |-> state]
NoSelf == [max_lr |-> None, projection_fn |-> FALSE, momentum |-> Zero,
           adjusted_momentum |-> FALSE, eps |-> Zero]

Init ==
    /\ phase = "new"
    /\ self = NoSelf
    /\ param_groups = <<>>
    /\ P = P0
    /\ grad = [p \in Params |-> NoGrad]
    /\ state = [p \in Params |-> <<>>]
    /\ log = <<>>
    /\ result = [kind |-> "none", exc |-> "", loss |-> None]
    /\ un_clipped = None
    /\ pre = [self |-> NoSelf, param_groups |-> <<>>, P |-> P0,
              grad |-> [p \in Params |-> NoGrad], state |-> [p \in Params |-> <<>>]]
    /\ lastOp = [op |-> "none", closure |-> None]
    /\ okSteps = 0
    /\ calls = 0

Construct ==
    /\ phase = "new"
    /\ \E params \in ParamsChoices, max_lr \in MaxLrChoices, projection_fn \in BOOLEAN,
          momentum \in MomentumChoices, adjusted_momentum \in BOOLEAN, eps \in EpsChoices :
          \E r \in {AliG_init(params, max_lr, projection_fn, momentum, adjusted_momentum, eps)} :
             /\ phase' = r.phase
             /\ self' = r.self
             /\ param_groups' = r.param_groups
             /\ log' = r.log
             /\ result' = r.result
    /\ pre' = Snapshot
    /\ lastOp' = [op |-> "init", closure |-> None]
    /\ UNCHANGED <<P, grad, state, un_clipped, okSteps, calls>>

Step ==
    /\ phase = "ready"
    /\ calls < MaxCalls
    /\ \E closure \in {None} \cup {Some(c) : c \in Closures} :
          \E r \in {step(Obj, closure)} :
             /\ param_groups' = r.param_groups
             /\ P' = r.P
             /\ grad' = r.grad
             /\ state' = r.state
             /\ log' = r.log
             /\ result' = r.result
             /\ un_clipped' = r.un_clipped
             /\ okSteps' = IF r.result.kind = "return" THEN okSteps + 1 ELSE okSteps
             /\ lastOp' = [op |-> "step", closure |-> closure]
    /\ pre' = Snapshot
    /\ calls' = calls + 1
    /\ UNCHANGED <<phase, self>>

Reset ==
    /\ phase = "ready"
    /\ calls < MaxCalls
    /\ \E r \in {reset(Obj)} :
          /\ param_groups' = r.param_groups
          /\ P' = r.P
          /\ grad' = r.grad
          /\ state' = r.state
          /\ log' = r.log
          /\ result' = r.result
    /\ pre' = Snapshot
    /\ lastOp' = [op |-> "reset", closure |-> None]
    /\ okSteps' = 0
    /\ calls' = calls + 1
    /\ UNCHANGED <<phase, self, un_clipped>>

Next == Construct \/ Step \/ Reset

Spec == Init /\ [][Next]_vars

----------------------------------------------------------------------------
(* Vocabulary of the properties.                                           *)

RECURSIVE Flatten(_, _)
Flatten(groups, i) ==
    IF i > Len(groups) THEN <<>> ELSE groups[i].params \o Flatten(groups, i + 1)

\* The order in which step visits the parameters.
Order == Flatten(param_groups, 1)
Pos(p) == CHOOSE i \in 1..Len(Order) : Order[i] = p
GroupOf(p) ==
    CHOOSE gi \in 1..Len(param_groups) :
        \E k \in 1..Len(param_groups[gi].params) : param_groups[gi].params[k] = p
Groups == 1..Len(param_groups)
Count(e) == Cardinality({i \in 1..Len(log) : log[i] = e})
CountEv(name) == Cardinality({i \in 1..Len(log) : log[i].ev = name})
Index(e) == CHOOSE i \in 1..Len(log) : log[i] = e

AfterStep == lastOp.op = "step"
StepReturned == AfterStep /\ result.kind = "return"
SparseRaised == AfterStep /\ result.kind = "raise" /\ result.exc = "NoSparseGradientError"
HasSparse == \E p \in Params : grad[p].kind = "sparse"
FirstSparse ==
    CHOOSE p \in Params :
        /\ grad[p].kind = "sparse"
        /\ \A q \in Params : grad[q].kind = "sparse" => Pos(p) <= Pos(q)

----------------------------------------------------------------------------
\* C1: after a step that returns, the step size of every group whose max_lr
\* is not None is at most that max_lr, and it is the un-clipped step size
\* whenever the un-clipped step size is below max_lr.
C1_StepSizeAtMostMaxLr ==
    StepReturned =>
        \A gi \in Groups :
            ~IsNone(param_groups[gi].max_lr) =>
                /\ RLe(Val(param_groups[gi].step_size), Val(param_groups[gi].max_lr))
                /\ RLt(Val(un_clipped), Val(param_groups[gi].max_lr))
                       => param_groups[gi].step_size = un_clipped

\* C2: a step that gets past the step-size computation with a sparse gradient
\* on some parameter raises NoSparseGradientError at the first such parameter
\* in iteration order, and that parameter, its buffer and every parameter and
\* buffer after it (same group and later groups) are as before the step.
C2_SparseGradRejected ==
    (AfterStep /\ ~IsNone(lastOp.closure) /\ HasSparse) =>
        /\ SparseRaised
        /\ log[Len(log)] = Ev("raise", FirstSparse)
        /\ \A q \in Params :
               Pos(q) >= Pos(FirstSparse) => P[q] = pre.P[q] /\ state[q] = pre.state[q]

\* C2 witness: the sparse gradient is on the second parameter of the first
\* group, after the first parameter was updated, and a later group holds a
\* parameter with a dense gradient.
C2_Witness ==
    /\ SparseRaised
    /\ grad[2].kind = "sparse"
    /\ P[1] # pre.P[1]
    /\ grad[3].kind = "dense"

\* C3: when a hyperparameter is out of range (negative momentum or negative
\* eps) the constructor raises, and it does so with validation as its only
\* step: no group is registered and projection_fn is not called.
C3_ValidationFirst ==
    (lastOp.op = "init" /\ (RLt(self.momentum, Zero) \/ RLt(self.eps, Zero))) =>
        /\ phase = "failed"
        /\ result.kind = "raise"
        /\ param_groups = <<>>
        /\ CountEv("super_init") = 0
        /\ CountEv("projection_fn") = 0
        /\ log[1] = Ev("validate_parameters", 0)

\* C3 witness: a constructor call with a projection function and a negative
\* momentum that raised.
C3_Witness ==
    /\ phase = "failed"
    /\ self.projection_fn
    /\ RLt(self.momentum, Zero)
    /\ result.kind = "raise"

\* C4: after k steps that returned since construction or reset (k >= 1),
\* every group's step counter exists and equals k.
C4_StepCounterAdvances ==
    (phase = "ready" /\ okSteps >= 1) =>
        \A gi \in Groups : param_groups[gi].step = Some(okSteps)

\* An optimizer freshly constructed with the same hyperparameters on the
\* same parameters (each group given with the max_lr and momentum it has).
FreshObj ==
    LET params == [i \in Groups |-> [params |-> param_groups[i].params, has_max_lr |-> TRUE,
                                     max_lr |-> param_groups[i].max_lr,
                                     has_momentum |-> TRUE,
                                     momentum |-> param_groups[i].momentum]]
        r == AliG_init(params, self.max_lr, self.projection_fn, self.momentum,
                       self.adjusted_momentum, self.eps)
    IN [self |-> r.self, param_groups |-> r.param_groups, P |-> P, grad |-> grad,
        state |-> [p \in Params |-> <<>>]]

\* C5: right after reset every group's step counter is 0, every parameter has
\* a zero momentum buffer, the parameter values and the hyperparameters are
\* unchanged, and a step from here leaves the parameters exactly as the first
\* step of a freshly constructed optimizer does, for every loss and gradients.
C5_ResetRestoresFresh ==
    lastOp.op = "reset" =>
        /\ \A gi \in Groups :
               /\ param_groups[gi].step = Some(0)
               /\ param_groups[gi].max_lr = pre.param_groups[gi].max_lr
               /\ param_groups[gi].momentum = pre.param_groups[gi].momentum
               /\ param_groups[gi].eps = pre.param_groups[gi].eps
        /\ \A p \in Params : state[p] = <<Zero>>
        /\ P = pre.P
        /\ self = pre.self
        /\ \A c \in Closures :
               \E a \in {step(Obj, Some(c))}, b \in {step(FreshObj, Some(c))} :
                   a.P = b.P /\ a.result = b.result

\* C5 witness: a reset of an optimizer whose parameters have moved and that
\* held a non-zero momentum buffer.
C5_Witness ==
    /\ lastOp.op = "reset"
    /\ P # P0
    /\ \E p \in Params : pre.state[p] # <<>> /\ pre.state[p] # <<Zero>>

RECURSIVE SumSq(_)
SumSq(S) ==
    IF S = {} THEN Zero
    ELSE LET p == CHOOSE x \in S : TRUE
         IN RAdd(RMul(grad[p].v, grad[p].v), SumSq(S \ {p}))

\* C7: the un-clipped step size of a step is loss / (S + eps), S the sum of
\* the squared gradients of all parameters of all groups that have one (the
\* gradients the closure left); it is computed once, right after the closure
\* and before anything else, and every group's step size is that value or,
\* only for a group with a max_lr, the group's max_lr.
C7_GlobalStepSize ==
    (AfterStep /\ ~IsNone(lastOp.closure)) =>
        /\ un_clipped = Some(RDiv(Val(lastOp.closure).loss,
                                  RAdd(SumSq({p \in Params : grad[p].kind # "none"}), self.eps)))
        /\ log[1] = Ev("closure", 0)
        /\ log[2] = Ev("compute_step_size", 0)
        /\ CountEv("compute_step_size") = 1
        /\ \A gi \in Groups :
               Count(Ev("step_size", gi)) = 1 =>
                   IF IsNone(param_groups[gi].max_lr)
                   THEN param_groups[gi].step_size = un_clipped
                   ELSE param_groups[gi].step_size \in {un_clipped, param_groups[gi].max_lr}

\* C7 witness: a step with gradients in both groups whose groups end with
\* different step sizes.
C7_Witness ==
    /\ StepReturned
    /\ grad[1].kind = "dense"
    /\ grad[3].kind = "dense"
    /\ param_groups[1].step_size # param_groups[2].step_size

\* The parameters step got to: those with a dense gradient, before the
\* parameter it raised at, if it raised.
Reached(p) ==
    /\ grad[p].kind = "dense"
    /\ StepReturned \/ (SparseRaised /\ Pos(p) < Pos(FirstSparse))

\* C8: one step takes a parameter p with dense gradient g, previous buffer b
\* (zero if none), group step size s and group momentum m to
\*   m = 0:                p' = p - s*g,               b' = b = 0
\*   m > 0, not adjusted:  b' = m*b - s*g,             p' = p - s*g + m*b'
\*   m > 0, adjusted:      b' = m*b - g,               p' = p - s*g + s*m*b'
\* and leaves a parameter without gradient and its state as they were.
C8_UpdateRule ==
    AfterStep =>
        \A p \in Params :
            LET gi == GroupOf(p)
                s == Val(param_groups[gi].step_size)
                m == param_groups[gi].momentum
                g == grad[p].v
                b == IF pre.state[p] = <<>> THEN Zero ELSE pre.state[p][1]
                b1 == state[p][1]
                sgd == RSub(pre.P[p], RMul(s, g))
            IN /\ Reached(p) =>
                   /\ Len(state[p]) = 1
                   /\ IF m = Zero
                      THEN P[p] = sgd /\ b1 = b /\ b1 = Zero
                      ELSE IF ~self.adjusted_momentum
                      THEN /\ b1 = RSub(RMul(m, b), RMul(s, g))
                           /\ P[p] = RAdd(sgd, RMul(m, b1))
                      ELSE /\ b1 = RSub(RMul(m, b), g)
                           /\ P[p] = RAdd(sgd, RMul(RMul(s, m), b1))
               /\ grad[p].kind = "none" => P[p] = pre.P[p] /\ state[p] = pre.state[p]

\* C8 witness: a step with adjusted momentum on a parameter that already had
\* a non-zero buffer and whose group has a momentum of its own (the default
\* momentum is 0), while another parameter has no gradient.
C8_Witness ==
    /\ StepReturned
    /\ self.adjusted_momentum
    /\ self.momentum = Zero
    /\ \E p \in Params :
           /\ grad[p].kind = "dense"
           /\ RLt(Zero, param_groups[GroupOf(p)].momentum)
           /\ pre.state[p] # <<>> /\ pre.state[p] # <<Zero>>
    /\ \E q \in Params : grad[q].kind = "none" /\ pre.state[q] = <<>>

\* C9: without a projection function no call is ever made; with one, a
\* successful construction ends with exactly one call, and a step that
\* returns calls it exactly once per group, right after the group's step
\* size was set and its parameters were updated, so the last thing such a
\* step does is a projection and every changed parameter was changed before
\* its group's projection.
C9_ProjectionCalls ==
    /\ ~self.projection_fn => CountEv("projection_fn") = 0
    /\ (self.projection_fn /\ lastOp.op = "init" /\ phase = "ready") =>
           /\ CountEv("projection_fn") = 1
           /\ log[Len(log)] = Ev("projection_fn", 0)
    /\ (self.projection_fn /\ StepReturned) =>
           /\ CountEv("projection_fn") = Len(param_groups)
           /\ log[Len(log)].ev = "projection_fn"
           /\ \A p \in Params : P[p] # pre.P[p] => Count(Ev("update", p)) = 1
           /\ \A gi \in Groups :
                  /\ Count(Ev("projection_fn", gi)) = 1
                  /\ LET j == Index(Ev("projection_fn", gi))
                     IN /\ \A p \in Params :
                               (GroupOf(p) = gi /\ Count(Ev("update", p)) > 0)
                                   => Index(Ev("update", p)) < j
                        /\ \/ log[j - 1] = Ev("step_size", gi)
                           \/ log[j - 1].ev = "update" /\ GroupOf(log[j - 1].arg) = gi

\* C9 witness: a returning step with a projection function that changed
\* parameters of both groups.
C9_Witness ==
    /\ StepReturned
    /\ self.projection_fn
    /\ P[1] # pre.P[1]
    /\ P[3] # pre.P[3]

\* C10: a step without closure raises TypeError in the step-size computation
\* with the parameters, buffers and groups untouched; a step with a closure
\* evaluates it exactly once and, when it returns, returns the closure's value.
C10_ClosureAndLoss ==
    AfterStep =>
        IF IsNone(lastOp.closure)
        THEN /\ result.kind = "raise"
             /\ result.exc = "TypeError"
             /\ log = <<Ev("compute_step_size", 0), Ev("raise", 0)>>
             /\ P = pre.P
             /\ state = pre.state
             /\ param_groups = pre.param_groups
        ELSE /\ CountEv("closure") = 1
             /\ result.kind = "return" => result.loss = Some(Val(lastOp.closure).loss)

\* C10 witness: a step without closure on an optimizer whose parameters
\* carry dense gradients from an earlier step.
C10_Witness ==
    /\ AfterStep
    /\ IsNone(lastOp.closure)
    /\ \A p \in Params : grad[p].kind = "dense"
====
